---- MODULE Spec2Model ----
(***************************************************************************)
(* Model of equinix-billing-tools: the cost_summary and bigquery           *)
(* subcommands, the usage aggregation (summarize), the report-type filter  *)
(* (includeUsage), the gateway splitter (splitGateways) and the bigquery   *)
(* pro-ration of hardware reservations.                                    *)
(*                                                                         *)
(* Go strings are modelled as sequences of byte values, so that            *)
(* strings.HasPrefix, strings.Contains, strings.ToUpper and the byte-wise  *)
(* string comparison are computed the way the Go runtime computes them.    *)
(* float64 amounts are modelled as integers; the amounts that are divided  *)
(* by a number of days are multiples of MonthLcm, so the quotient is exact.*)
(***************************************************************************)
EXTENDS Integers, Sequences, FiniteSets

(***************************************************************************)
(* String literals of the program and of the inputs (byte sequences).      *)
(***************************************************************************)
\* "gateway"
sGateway ==
    <<103, 97, 116, 101, 119, 97, 121>>
\* "gateway-kubo"
sGatewayKubo ==
    <<103, 97, 116, 101, 119, 97, 121, 45, 107, 117, 98, 111>>
\* "gateway-lb"
sGatewayLb ==
    <<103, 97, 116, 101, 119, 97, 121, 45, 108, 98>>
\* "ipfs-"
sIpfsPrefix ==
    <<105, 112, 102, 115, 45>>
\* "gateway-"
sGatewayPrefix ==
    <<103, 97, 116, 101, 119, 97, 121, 45>>
\* "medium"
sMedium ==
    <<109, 101, 100, 105, 117, 109>>
\* "small"
sSmall ==
    <<115, 109, 97, 108, 108>>
\* "HardwareReservation"
sHardwareReservation ==
    <<72, 97, 114, 100, 119, 97, 114, 101, 82, 101, 115, 101, 114, 118, 97, 116, 105, 111, 110>>
\* "Outbound Bandwidth"
sOutboundBandwidth ==
    <<79, 117, 116, 98, 111, 117, 110, 100, 32, 66, 97, 110, 100, 119, 105, 100, 116, 104>>
\* "Hardware Reservation daily pro-rated"
sProRated ==
    <<72, 97, 114, 100, 119, 97, 114, 101, 32, 82, 101, 115, 101, 114, 118, 97, 116, 105, 111, 110, 32, 100, 97, 105, 108, 121, 32, 112, 114, 111, 45, 114, 97, 116, 101, 100>>
\* ""
sEmpty ==
    <<>>
\* "Instance"
sInstance ==
    <<73, 110, 115, 116, 97, 110, 99, 101>>
\* "ipfs-node-1"
sIpfsNode1 ==
    <<105, 112, 102, 115, 45, 110, 111, 100, 101, 45, 49>>
\* "gateway-lb-1"
sGatewayLb1 ==
    <<103, 97, 116, 101, 119, 97, 121, 45, 108, 98, 45, 49>>
\* "ipfs-res"
sIpfsRes ==
    <<105, 112, 102, 115, 45, 114, 101, 115>>
\* "backup-1"
sBackup1 ==
    <<98, 97, 99, 107, 117, 112, 45, 49>>
\* "c3.medium.x86"
sPlanMedium ==
    <<99, 51, 46, 109, 101, 100, 105, 117, 109, 46, 120, 56, 54>>
\* "c3.small.x86"
sPlanSmall ==
    <<99, 51, 46, 115, 109, 97, 108, 108, 46, 120, 56, 54>>
\* "alpha"
sAlpha ==
    <<97, 108, 112, 104, 97>>
\* "Beta"
sBeta ==
    <<66, 101, 116, 97>>
\* "SV"
sSV ==
    <<83, 86>>
\* "p1"
sP1 ==
    <<112, 49>>
\* "p2"
sP2 ==
    <<112, 50>>
\* "p3"
sP3 ==
    <<112, 51>>
\* "Total"
sTotal ==
    <<84, 111, 116, 97, 108>>
\* "T00:00:00.000-0000"
sSuffixDate ==
    <<84, 48, 48, 58, 48, 48, 58, 48, 48, 46, 48, 48, 48, 45, 48, 48, 48, 48>>
\* ".000-0000"
sSuffixSeconds ==
    <<46, 48, 48, 48, 45, 48, 48, 48, 48>>
\* "-0000"
sSuffixMillis ==
    <<45, 48, 48, 48, 48>>
\* "tok"
sToken ==
    <<116, 111, 107>>
\* "proj"
sBqProject ==
    <<112, 114, 111, 106>>
\* "ds"
sBqDataset ==
    <<100, 115>>
\* "tbl"
sBqTable ==
    <<116, 98, 108>>
\* "2023-01-22"
sEnd0122 ==
    <<50, 48, 50, 51, 45, 48, 49, 45, 50, 50>>
\* "22/01/2023"
sEndBad ==
    <<50, 50, 47, 48, 49, 47, 50, 48, 50, 51>>
\* "2023-01-10"
sBase0110 ==
    <<50, 48, 50, 51, 45, 48, 49, 45, 49, 48>>
\* "2023-01-01"
sStartJan1 ==
    <<50, 48, 50, 51, 45, 48, 49, 45, 48, 49>>
\* "2023-02-10T00:00:00"
sStartFeb10 ==
    <<50, 48, 50, 51, 45, 48, 50, 45, 49, 48, 84, 48, 48, 58, 48, 48, 58, 48, 48>>
\* "2024-02-10T00:00:00.000"
sStartLeapFeb10 ==
    <<50, 48, 50, 52, 45, 48, 50, 45, 49, 48, 84, 48, 48, 58, 48, 48, 58, 48, 48, 46, 48, 48, 48>>
\* "2023-12-15T00:00:00.000+0000"
sStartDec15 ==
    <<50, 48, 50, 51, 45, 49, 50, 45, 49, 53, 84, 48, 48, 58, 48, 48, 58, 48, 48, 46, 48, 48, 48, 43, 48, 48, 48, 48>>
\* "2023-01-31T23:00:00.000-0200"
sStartJan31West ==
    <<50, 48, 50, 51, 45, 48, 49, 45, 51, 49, 84, 50, 51, 58, 48, 48, 58, 48, 48, 46, 48, 48, 48, 45, 48, 50, 48, 48>>
\* "2023-03-01T00:00:00.000+0200"
sStartMar1East ==
    <<50, 48, 50, 51, 45, 48, 51, 45, 48, 49, 84, 48, 48, 58, 48, 48, 58, 48, 48, 46, 48, 48, 48, 43, 48, 50, 48, 48>>
\* "2023-04-30T23:00:00.000-0200"
sStartApr30West ==
    <<50, 48, 50, 51, 45, 48, 52, 45, 51, 48, 84, 50, 51, 58, 48, 48, 58, 48, 48, 46, 48, 48, 48, 45, 48, 50, 48, 48>>
\* "2023-12-31T23:00:00.000-0200"
sStartDec31West ==
    <<50, 48, 50, 51, 45, 49, 50, 45, 51, 49, 84, 50, 51, 58, 48, 48, 58, 48, 48, 46, 48, 48, 48, 45, 48, 50, 48, 48>>
\* "yesterday"
sStartBad ==
    <<121, 101, 115, 116, 101, 114, 100, 97, 121>>
\* "T00:00:00"
sTimeMidnight ==
    <<84, 48, 48, 58, 48, 48, 58, 48, 48>>
\* "T12:34:56"
sTimeAfternoon ==
    <<84, 49, 50, 58, 51, 52, 58, 53, 54>>
\* ".000"
sMilliZero ==
    <<46, 48, 48, 48>>
\* ".789"
sMilli789 ==
    <<46, 55, 56, 57>>
\* "+0200"
sOffsetEast ==
    <<43, 48, 50, 48, 48>>
\* "-0330"
sOffsetWest ==
    <<45, 48, 51, 51, 48>>
\* "+00:00"
sOffsetColon ==
    <<43, 48, 48, 58, 48, 48>>
\* "Z"
sOffsetZ ==
    <<90>>
\* "2024-02-29"
sLeapDay ==
    <<50, 48, 50, 52, 45, 48, 50, 45, 50, 57>>

(***************************************************************************)
(* Bounds and input universes.                                             *)
(***************************************************************************)
\* longest usage list drawn for one project
MaxLen == 2

\* least common multiple of 28, 29, 30 and 31: the unit of divisible amounts
MonthLcm == 377580

\* cmd/cost_summary.go:31-32
ReservationsReport == "reservations"
NonReservationsReport == ""
ReportTypes == {ReservationsReport, NonReservationsReport}

UsageRec(metro, plan, type, name, price, quantity, total) ==
    [Metro |-> metro, Plan |-> plan, Type |-> type, Name |-> name,
     Price |-> price, Quantity |-> quantity, Total |-> total]

\* representative usage records as the upstream API returns them
recKubo == UsageRec(sSV, sPlanMedium, sInstance, sIpfsNode1, 2, 3, 6)
recLb == UsageRec(sSV, sPlanSmall, sInstance, sGatewayLb1, 5, 7, 35)
recResMedium ==
    UsageRec(sSV, sPlanMedium, sHardwareReservation, sEmpty, MonthLcm, 1, 2 * MonthLcm)
recResSmall ==
    UsageRec(sSV, sPlanSmall, sHardwareReservation, sEmpty, 3 * MonthLcm, 2, 4 * MonthLcm)
recBoth ==
    UsageRec(sSV, sPlanSmall, sHardwareReservation, sIpfsRes, 11 * MonthLcm, 13, 143 * MonthLcm)
recOther == UsageRec(sSV, sOutboundBandwidth, sInstance, sBackup1, 17, 19, 323)
recResBandwidth ==
    UsageRec(sSV, sOutboundBandwidth, sHardwareReservation, sEmpty, 23 * MonthLcm, 29, 31 * MonthLcm)

\* all sequences over S of length at most n
BoundedSeq(S, n) == UNION {[1..k -> S] : k \in 0..n}

\* all maps whose keys are a subset of K and whose values are in V
Maps(K, V) == UNION {[D -> V] : D \in SUBSET K}

EmptyMap == [k \in {} |-> <<>>]

Range(s) == {s[i] : i \in 1..Len(s)}

(***************************************************************************)
(* Go runtime helpers.                                                     *)
(***************************************************************************)
\* m[k] of a Go map of slices: the nil slice for an absent key
Lookup(m, k) == IF k \in DOMAIN m THEN m[k] ELSE <<>>

\* m[k] = append(m[k], u)
MapAppend(m, k, u) ==
    [x \in DOMAIN m \cup {k} |-> IF x = k THEN Append(Lookup(m, k), u) ELSE m[x]]

\* strings.HasPrefix
HasPrefix(s, prefix) ==
    Len(s) >= Len(prefix) /\ SubSeq(s, 1, Len(prefix)) = prefix

\* strings.Contains
Contains(s, substr) ==
    \E i \in 1..(Len(s) - Len(substr) + 1) : SubSeq(s, i, i + Len(substr) - 1) = substr

(***************************************************************************)
(* cmd/cost_summary.go: the report-type filter and the aggregator.         *)
(***************************************************************************)
SummaryZero ==
    [Price |-> 0, Quantity |-> 0, Total |-> 0,
     BasePrice |-> 0, BaseQuantity |-> 0, BaseTotal |-> 0]

\* mutant: the filter ignores the report type
includeUsageAnyType(t, usage) == usage.Type # sHardwareReservation

includeUsage(t, usage) ==
    \/ (t = ReservationsReport /\ usage.Type = sHardwareReservation)
    \/ (t = NonReservationsReport /\ usage.Type # sHardwareReservation)

\* mutant: a report-window record is added to the baseline columns
addUsageToBase(summary, usage) ==
    [summary EXCEPT !.BasePrice = @ + usage.Price,
                    !.BaseQuantity = @ + usage.Quantity,
                    !.BaseTotal = @ + usage.Total]

\* mutant: the total of a record is pro-rated over a month of 31 days
addUsageProRated(summary, usage) ==
    [summary EXCEPT !.Price = @ + usage.Price \div 31,
                    !.Quantity = @ + usage.Quantity,
                    !.Total = @ + usage.Total \div 31]

\* lines 250-252
addUsage(summary, usage) ==
    [summary EXCEPT !.Price = @ + usage.Price,
                    !.Quantity = @ + usage.Quantity,
                    !.Total = @ + usage.Total]

\* lines 258-260
addBaseUsage(summary, usage) ==
    [summary EXCEPT !.BasePrice = @ + usage.Price,
                    !.BaseQuantity = @ + usage.Quantity,
                    !.BaseTotal = @ + usage.Total]

\* the loop over projectUsages (lines 248-254)
RECURSIVE sumReport(_, _, _)
sumReport(t, projectUsages, summary) ==
    IF projectUsages = <<>> THEN summary
    ELSE LET usage == Head(projectUsages) IN
         sumReport(t, Tail(projectUsages),
                   IF includeUsage(t, usage) THEN addUsage(summary, usage) ELSE summary)

\* the loop over baseUsages (lines 256-262)
RECURSIVE sumBase(_, _, _)
sumBase(t, baseUsages, summary) ==
    IF baseUsages = <<>> THEN summary
    ELSE LET usage == Head(baseUsages) IN
         sumBase(t, Tail(baseUsages),
                 IF includeUsage(t, usage) THEN addBaseUsage(summary, usage) ELSE summary)

\* mutant: the grand total misses the baseline columns
addTotalsNoBase(totals, summary) ==
    [totals EXCEPT !.Price = @ + summary.Price,
                   !.Quantity = @ + summary.Quantity,
                   !.Total = @ + summary.Total]

\* lines 264-269
addTotals(totals, summary) ==
    [Price |-> totals.Price + summary.Price,
     Quantity |-> totals.Quantity + summary.Quantity,
     Total |-> totals.Total + summary.Total,
     BasePrice |-> totals.BasePrice + summary.BasePrice,
     BaseQuantity |-> totals.BaseQuantity + summary.BaseQuantity,
     BaseTotal |-> totals.BaseTotal + summary.BaseTotal]

\* mutant: the loop also visits the projects of the baseline map
summarizeKeysWithBaseline(baseline, usages) == DOMAIN usages \cup DOMAIN baseline

\* the keys visited by "for project, projectUsages := range usages"
summarizeKeys(baseline, usages) == DOMAIN usages

\* the outer loop (lines 237-272); todo holds the keys not yet visited
RECURSIVE summarizeLoop(_, _, _, _, _)
summarizeLoop(t, base, us, todo, acc) ==
    IF todo = {} THEN acc
    ELSE LET project == CHOOSE p \in todo : TRUE
             summary == sumBase(t, Lookup(base, project),
                                sumReport(t, Lookup(us, project), SummaryZero))
         IN summarizeLoop(t, base, us, todo \ {project},
               [perProjectSummary |->
                    [k \in DOMAIN acc.perProjectSummary \cup {project} |->
                        IF k = project THEN summary ELSE acc.perProjectSummary[k]],
                totals |-> addTotals(acc.totals, summary)])

summarize(t, base, us) ==
    summarizeLoop(t, base, us, summarizeKeys(base, us),
                  [perProjectSummary |-> EmptyMap, totals |-> SummaryZero])

(***************************************************************************)
(* cmd/cost_summary.go: the gateway splitter.                              *)
(***************************************************************************)
\* mutant: the load-balancer rule is tried first
gatewayKeyLbFirst(u) ==
    IF HasPrefix(u.Name, sGatewayPrefix)
          \/ (u.Type = sHardwareReservation /\ Contains(u.Plan, sSmall))
    THEN sGatewayLb
    ELSE IF HasPrefix(u.Name, sIpfsPrefix)
          \/ (u.Type = sHardwareReservation /\ Contains(u.Plan, sMedium))
    THEN sGatewayKubo
    ELSE sEmpty

\* lines 207-213: the key k of one record
gatewayKey(u) ==
    IF HasPrefix(u.Name, sIpfsPrefix)
          \/ (u.Type = sHardwareReservation /\ Contains(u.Plan, sMedium))
    THEN sGatewayKubo
    ELSE IF HasPrefix(u.Name, sGatewayPrefix)
          \/ (u.Type = sHardwareReservation /\ Contains(u.Plan, sSmall))
    THEN sGatewayLb
    ELSE sEmpty

RECURSIVE splitLoop(_, _)
splitLoop(gateways, out) ==
    IF gateways = <<>> THEN out
    ELSE splitLoop(Tail(gateways), MapAppend(out, gatewayKey(Head(gateways)), Head(gateways)))

splitGateways(us) == splitLoop(Lookup(us, sGateway), EmptyMap)

(***************************************************************************)
(* Calendar arithmetic of Go's time package, on civil dates                *)
(* [year, month, day] and on times [year, month, day, hour, offset] whose  *)
(* fields are those of the time's own location (offset = hours east of     *)
(* UTC, as time.Parse keeps the offset that was written in the string).    *)
(***************************************************************************)
IsLeap(y) == (y % 4 = 0 /\ y % 100 # 0) \/ y % 400 = 0

DaysIn(y, m) ==
    IF m = 2 THEN (IF IsLeap(y) THEN 29 ELSE 28)
    ELSE IF m \in {4, 6, 9, 11} THEN 30 ELSE 31

\* number of days from 1970-01-01 to the civil date
daysFromCivil(y, m, d) ==
    LET yy == IF m <= 2 THEN y - 1 ELSE y
        era == yy \div 400
        yoe == yy - era * 400
        mp == IF m > 2 THEN m - 3 ELSE m + 9
        doy == (153 * mp + 2) \div 5 + d - 1
        doe == yoe * 365 + yoe \div 4 - yoe \div 100 + doy
    IN era * 146097 + doe - 719468

\* the civil date of a day number
civilFromDays(z) ==
    LET zz == z + 719468
        era == zz \div 146097
        doe == zz - era * 146097
        yoe == (doe - doe \div 1460 + doe \div 36524 - doe \div 146096) \div 365
        doy == doe - (365 * yoe + yoe \div 4 - yoe \div 100)
        mp == (5 * doy + 2) \div 153
        d == doy - (153 * mp + 2) \div 5 + 1
        m == IF mp < 10 THEN mp + 3 ELSE mp - 9
    IN [year |-> IF m <= 2 THEN yoe + era * 400 + 1 ELSE yoe + era * 400,
        month |-> m, day |-> d]

\* time.Date(y, m, d, 0, 0, 0, 0, loc): month and day are normalised
timeDate(y, m, d) ==
    LET ny == y + ((m - 1) \div 12)
        nm == ((m - 1) % 12) + 1
    IN civilFromDays(daysFromCivil(ny, nm, 1) + d - 1)

\* t.AddDate(0, 0, n) of a civil date
AddDate(date, n) == timeDate(date.year, date.month, date.day + n)

\* t.Unix(): seconds since the epoch of the instant a time denotes
unix(t) == (daysFromCivil(t.year, t.month, t.day) * 24 + t.hour - t.offset) * 3600

\* t.Add(d) for a duration of whole hours: same location, later instant
timeAdd(t, seconds) ==
    LET h == t.hour + seconds \div 3600
        date == timeDate(t.year, t.month, t.day + (h \div 24))
    IN [year |-> date.year, month |-> date.month, day |-> date.day,
        hour |-> h % 24, offset |-> t.offset]

\* t.UTC(): the same instant with the fields of the UTC location
timeUTC(t) == timeAdd([t EXCEPT !.offset = 0], (0 - t.offset) * 3600)

\* part_001 line 133: time.Date(startTime.Year(), startTime.Month()+1, 0, ..., time.UTC).Day()
daysInMonth(startTime) == timeDate(startTime.year, startTime.month + 1, 0).day

(***************************************************************************)
(* Byte-wise string order and strings.ToUpper.                             *)
(***************************************************************************)
\* the upper-case mapping of one ASCII byte
upperByte(b) == IF b >= 97 /\ b <= 122 THEN b - 32 ELSE b

\* strings.ToUpper
ToUpper(s) == [i \in 1..Len(s) |-> upperByte(s[i])]

\* the Go operator < on strings: lexicographic order of the bytes
RECURSIVE StrLess(_, _)
StrLess(a, b) ==
    IF b = <<>> THEN FALSE
    ELSE IF a = <<>> THEN TRUE
    ELSE IF Head(a) # Head(b) THEN Head(a) < Head(b)
    ELSE StrLess(Tail(a), Tail(b))

\* lines 147-149: the less function given to sort.Slice
projectLess(a, b) == StrLess(ToUpper(a.Name), ToUpper(b.Name))

\* the permutations of a sequence
Orderings(s) ==
    {p \in [1..Len(s) -> Range(s)] : \A x \in Range(s) :
        Cardinality({i \in 1..Len(s) : p[i] = x}) = Cardinality({i \in 1..Len(s) : s[i] = x})}

\* lines 145-150: the results sort.Slice may leave (it is not stable)
sortSlice(s) ==
    {p \in Orderings(s) : \A i, j \in 1..Len(p) : i < j => ~projectLess(p[j], p[i])}

(***************************************************************************)
(* The upstream API as the program sees it.                                *)
(***************************************************************************)
\* longest project list the upstream API returns
MaxProjects == 2

Project(id, name) == [Id |-> id, Name |-> name]

\* equinix.Project{}: the zero value
ZeroProject == Project(sEmpty, sEmpty)

UpstreamProjects ==
    {Project(sP1, sAlpha), Project(sP2, sBeta), Project(sP3, sGateway)}

\* the project lists GetProjects may return: no project twice
ProjectLists ==
    {l \in BoundedSeq(UpstreamProjects, MaxProjects) :
        \A i, j \in 1..Len(l) : i # j => l[i] # l[j]}

\* the usage lists one usage request may return
UsageResponses ==
    { <<>>,
      <<recKubo, recResMedium>>,
      <<recLb, recOther, recResBandwidth, recResSmall>> }

\* the key of a project in the usage maps: the callers index the map with
\* the project name (usages["gateway"], matched by p.Name == "gateway")
projectKey(p) == p.Name

(***************************************************************************)
(* Command construction.                                                   *)
(***************************************************************************)
Date(y, m, d) == [year |-> y, month |-> m, day |-> d]

\* CostSummary(): the CostSummaryT built from the flags -t, -g, -d, -e, -b
\* (baselineF = "" is modelled as the date NoDate)
NoDate == Date(0, 0, 0)

CostSummary(typeF, gatewayF, daysF, endF, baselineF) ==
    LET startTime == AddDate(endF, 0 - daysF + 1)
        baseEnd == IF baselineF = NoDate THEN AddDate(startTime, 0 - 1) ELSE baselineF
        baseStart == AddDate(baseEnd, 0 - daysF + 1)
    IN [reportType |-> typeF, onlyGateways |-> gatewayF,
        startDate |-> startTime, endDate |-> endF,
        baselineStart |-> baseStart, baselineEnd |-> baseEnd]

\* UploadToBigquery(): the UploadToBigqueryT built from the flags -s, -i, -p,
\* -d and -t (startF is the parsed start time)
UploadToBigquery(startF, secondsF, projectIdF, datasetIdF, tableIdF) ==
    [startTime |-> startF, endTime |-> timeAdd(startF, secondsF),
     projectId |-> projectIdF, datasetId |-> datasetIdF, tableId |-> tableIdF]

Time(y, m, d, h, off) == [year |-> y, month |-> m, day |-> d, hour |-> h, offset |-> off]

\* values of the flags, as written on the command line
DaysFlags == {1, 2, 7}
EndFlags == {sEnd0122, sEndBad}
BaselineFlags == {sEmpty, sBase0110, sEndBad}
TypeFlags == {"", "reservations", "monthly"}
StartFlags ==
    { sStartJan1, sStartFeb10, sStartLeapFeb10, sStartDec15, sStartJan31West,
      sStartMar1East, sStartApr30West, sStartDec31West, sStartBad }
SecondsFlags == {86400, 172800}

NoCommand == [none |-> TRUE]

(***************************************************************************)
(* unnamed/part_000 (package common) and the parsing of dates and times.   *)
(***************************************************************************)
\* a completion that writes the offset as "+00:00"
PartialToFullIsoColon(partial) ==
    IF Len(partial) = 10 THEN partial \o sTimeMidnight \o sMilliZero \o sOffsetColon
    ELSE IF Len(partial) = 19 THEN partial \o sMilliZero \o sOffsetColon
    ELSE IF Len(partial) = 23 THEN partial \o sOffsetColon
    ELSE partial

\* part_000 lines 10-22
PartialToFullIso(partial) ==
    IF Len(partial) = 10 THEN partial \o sSuffixDate
    ELSE IF Len(partial) = 19 THEN partial \o sSuffixSeconds
    ELSE IF Len(partial) = 23 THEN partial \o sSuffixMillis
    ELSE partial

\* the bytes i .. i+n-1 of s are decimal digits
isDigits(s, i, n) == \A j \in i..(i + n - 1) : s[j] >= 48 /\ s[j] <= 57

\* the number written by the n digits of s that start at i
RECURSIVE atoi(_, _, _)
atoi(s, i, n) == IF n = 0 THEN 0 ELSE atoi(s, i, n - 1) * 10 + (s[i + n - 1] - 48)

ParseError == [ok |-> FALSE]

\* time.Parse("2006-01-02", s): a civil date or an error
parseDate(s) ==
    IF Len(s) = 10 /\ isDigits(s, 1, 4) /\ s[5] = 45 /\ isDigits(s, 6, 2) /\ s[8] = 45
          /\ isDigits(s, 9, 2)
    THEN LET y == atoi(s, 1, 4)
             m == atoi(s, 6, 2)
             d == atoi(s, 9, 2)
         IN IF m >= 1 /\ m <= 12 /\ d >= 1 /\ d <= DaysIn(y, m)
            THEN [ok |-> TRUE, year |-> y, month |-> m, day |-> d]
            ELSE ParseError
    ELSE ParseError

\* time.Parse(ISO8601_FORMAT, t) for the layout the suffixes of
\* PartialToFullIso complete a string to: "2006-01-02T15:04:05.000-0700".
\* The time keeps the offset written in the string (minutes east of UTC).
parseIso8601(t) ==
    IF Len(t) = 28 /\ parseDate(SubSeq(t, 1, 10)).ok /\ t[11] = 84
          /\ isDigits(t, 12, 2) /\ t[14] = 58 /\ isDigits(t, 15, 2) /\ t[17] = 58
          /\ isDigits(t, 18, 2) /\ t[20] = 46 /\ isDigits(t, 21, 3)
          /\ t[24] \in {43, 45} /\ isDigits(t, 25, 4)
    THEN LET date == parseDate(SubSeq(t, 1, 10))
             h == atoi(t, 12, 2)
             mi == atoi(t, 15, 2)
             sec == atoi(t, 18, 2)
             off == atoi(t, 25, 2) * 60 + atoi(t, 27, 2)
         IN IF h < 24 /\ mi < 60 /\ sec < 60 /\ atoi(t, 27, 2) < 60
            THEN [ok |-> TRUE, year |-> date.year, month |-> date.month, day |-> date.day,
                  hour |-> h, minute |-> mi, second |-> sec, milli |-> atoi(t, 21, 3),
                  offset |-> IF t[24] = 45 THEN 0 - off ELSE off]
            ELSE ParseError
    ELSE ParseError

\* part_000 lines 25-28
ParsePartialIsoTime(ts) == parseIso8601(PartialToFullIso(ts))

\* the instant a parsed time denotes: t.Unix() and the milliseconds past it
instantOf(t) ==
    [unix |-> ((daysFromCivil(t.year, t.month, t.day) * 24 + t.hour) * 60 + t.minute
                   - t.offset) * 60 + t.second,
     milli |-> t.milli]

(***************************************************************************)
(* part_001 (cmd bigquery): the rows of one project's batch.               *)
(***************************************************************************)
\* lines 121-123: plan "Outbound Bandwidth" forces the type
normalizeType(u) ==
    IF u.Plan = sOutboundBandwidth THEN [u EXCEPT !.Type = u.Plan] ELSE u

\* mutant: a window longer than a day also counts as a full day
isFullDayOrLonger(u) == unix(u.endTime) - unix(u.startTime) >= 86400

\* line 129: the window is a full day
isFullDay(up) == unix(up.endTime) - unix(up.startTime) = 86400

\* lines 133-136: the pro-rated record (float division, exact on the inputs)
proRate(up, u) ==
    [u EXCEPT !.Price = u.Price \div daysInMonth(up.startTime),
              !.Total = u.Total \div daysInMonth(up.startTime),
              !.Name = sProRated]

\* lines 139-150: the row of one record
bqRow(up, project, u) ==
    [startTime |-> up.startTime, endTime |-> up.endTime, project |-> project,
     metro |-> u.Metro, plan |-> u.Plan, tpe |-> u.Type, name |-> u.Name,
     price |-> u.Price, quantity |-> u.Quantity, total |-> u.Total]

\* lines 118-152: the loop over the usages of one project
RECURSIVE buildItems(_, _, _, _)
buildItems(up, project, us, items) ==
    IF us = <<>> THEN items
    ELSE LET u == normalizeType(Head(us)) IN
         IF u.Type = sHardwareReservation
         THEN IF ~isFullDay(up)
              THEN buildItems(up, project, Tail(us), items)
              ELSE buildItems(up, project, Tail(us),
                              Append(items, bqRow(up, project, proRate(up, u))))
         ELSE buildItems(up, project, Tail(us), Append(items, bqRow(up, project, u)))

(***************************************************************************)
(* State.                                                                  *)
(***************************************************************************)
VARIABLES
    pc,                \* position of the run
    args,              \* the environment and the command line of the process
    subcommand,        \* the subcommand whose Run is in progress
    cs,                \* the CostSummaryT of a cost_summary run
    up,                \* the UploadToBigqueryT of a bigquery run
    listed,            \* the project list GetProjects returned
    projects,          \* the project list the run works on
    idx,               \* index of the next project in the loop of GetUsages
    requests,          \* upstream usage requests issued so far
    fetchedUsages,     \* result of GetUsages for the report window
    fetchedBaseline,   \* result of GetUsages for the baseline window
    usages,            \* report map handed to summarize
    baseline,          \* baseline map handed to summarize
    perProjectSummary, \* first result of summarize
    totals,            \* second result of summarize
    printed,           \* rows written to stdout, in order
    batches,           \* batches handed to inserter.Put, in order
    exitCode,          \* -1 while running, then the exit status
    partial,           \* argument of a call of PartialToFullIso
    full               \* result of that call

vars ==
    <<pc, args, subcommand, cs, up, listed, projects, idx, requests, fetchedUsages, fetchedBaseline,
      usages, baseline, perProjectSummary, totals, printed, batches, exitCode, partial, full>>

runVars == <<args, subcommand, cs, up, partial, full>>
resultVars == <<usages, baseline, perProjectSummary, totals, printed, batches>>

(***************************************************************************)
(* The run of a subcommand: main -> Run.                                   *)
(***************************************************************************)
\* the process as main finds it: EQUINIX_TOKEN, os.Args[1] and the flags
Args(token, sub, typeF, gatewayF, daysF, endF, baselineF, startF, secondsF, ids) ==
    [token |-> token, subcommand |-> sub, typeF |-> typeF, gatewayF |-> gatewayF,
     daysF |-> daysF, endF |-> endF, baselineF |-> baselineF, startF |-> startF,
     secondsF |-> secondsF, projectIdF |-> ids[1], datasetIdF |-> ids[2],
     tableIdF |-> ids[3]]

\* the -p, -d, -t flags of bigquery: all given, or one left at its default ""
IdFlags ==
    { <<sBqProject, sBqDataset, sBqTable>>, <<sEmpty, sBqDataset, sBqTable>>,
      <<sBqProject, sEmpty, sBqTable>>, <<sBqProject, sBqDataset, sEmpty>> }

NoIds == <<sEmpty, sEmpty, sEmpty>>
AllIds == <<sBqProject, sBqDataset, sBqTable>>

\* every report type, mode and day count with the default baseline, and
\* every pair of -e and -b for the default report
CostSummaryArgs ==
    {Args(sToken, "cost_summary", t, g, d, sEnd0122, sEmpty, sStartJan1, 86400, NoIds) :
        t \in TypeFlags, g \in BOOLEAN, d \in DaysFlags}
    \cup
    {Args(sToken, "cost_summary", "", FALSE, d, e, b, sStartJan1, 86400, NoIds) :
        d \in DaysFlags, e \in EndFlags, b \in BaselineFlags}

\* every start time and interval with all identifiers given, and every
\* choice of identifiers for one start time
BigqueryArgs ==
    {Args(sToken, "bigquery", "", FALSE, 1, sEnd0122, sEmpty, s, i, AllIds) :
        s \in StartFlags, i \in SecondsFlags}
    \cup
    {Args(sToken, "bigquery", "", FALSE, 1, sEnd0122, sEmpty, sStartJan1, 86400, ids) :
        ids \in IdFlags}

\* no token, no subcommand, an unknown subcommand
OtherArgs ==
    {Args(tok, sub, "", FALSE, 1, sEnd0122, sEmpty, sStartJan1, 86400, AllIds) :
        tok \in {sEmpty, sToken}, sub \in {"", "upload", "cost_summary", "bigquery"}}

ArgsSet == CostSummaryArgs \cup BigqueryArgs \cup OtherArgs

\* the variables no step has touched yet
Idle ==
    /\ listed = <<>>
    /\ projects = <<>>
    /\ idx = 1
    /\ requests = <<>>
    /\ fetchedUsages = EmptyMap
    /\ fetchedBaseline = EmptyMap
    /\ usages = EmptyMap
    /\ baseline = EmptyMap
    /\ perProjectSummary = EmptyMap
    /\ totals = SummaryZero
    /\ printed = <<>>
    /\ batches = <<>>
    /\ exitCode = -1
    /\ partial = <<>>
    /\ full = <<>>

Init ==
    /\ pc = "main"
    /\ args \in ArgsSet
    /\ subcommand = "none"
    /\ cs = NoCommand
    /\ up = NoCommand
    /\ Idle

\* part_002 lines 19-40: main exits before it builds a command
mainRejects(a) ==
    \/ Len(a.token) = 0
    \/ a.subcommand = ""
    \/ a.subcommand \notin {"cost_summary", "bigquery"}

\* cost_summary.go lines 77-107: CostSummary exits
costSummaryRejects(a) ==
    \/ a.typeF \notin {"reservations", ""}
    \/ ~parseDate(a.endF).ok
    \/ (a.baselineF # sEmpty /\ ~parseDate(a.baselineF).ok)

\* part_001 lines 72-76: UploadToBigquery exits
uploadRejects(a) == ~ParsePartialIsoTime(a.startF).ok

\* the civil date of a parsed date
dateOf(p) == Date(p.year, p.month, p.day)

\* the start time of a parsed -s flag (the flags are written to the hour)
startTimeOf(p) == Time(p.year, p.month, p.day, p.hour, p.offset \div 60)

\* the command main runs: command(eq)
command(a) ==
    IF a.subcommand = "cost_summary"
    THEN [cs |-> CostSummary(a.typeF, a.gatewayF, a.daysF, dateOf(parseDate(a.endF)),
                             IF a.baselineF = sEmpty THEN NoDate
                             ELSE dateOf(parseDate(a.baselineF))),
          up |-> NoCommand]
    ELSE [cs |-> NoCommand,
          up |-> UploadToBigquery(startTimeOf(ParsePartialIsoTime(a.startF)), a.secondsF,
                                  a.projectIdF, a.datasetIdF, a.tableIdF)]

\* part_002 lines 11-42: main checks the token and the subcommand, builds
\* the command and starts its Run
Main ==
    /\ pc = "main"
    /\ IF \/ mainRejects(args)
          \/ (args.subcommand = "cost_summary" /\ costSummaryRejects(args))
          \/ (args.subcommand = "bigquery" /\ uploadRejects(args))
       THEN /\ pc' = "exit"
            /\ exitCode' = 1
            /\ UNCHANGED <<subcommand, cs, up>>
       ELSE /\ pc' = "projects"
            /\ subcommand' = args.subcommand
            /\ cs' = command(args).cs
            /\ up' = command(args).up
            /\ UNCHANGED exitCode
    /\ UNCHANGED <<args, partial, full, listed, projects, idx, requests, fetchedUsages,
                   fetchedBaseline, resultVars>>

\* os.Exit(1) after a failed call
Exit1 ==
    /\ pc' = "exit"
    /\ exitCode' = 1

\* cost_summary.go lines 133-143: keep only the gateway project
RECURSIVE lastGateway(_, _)
lastGateway(ps, found) ==
    IF ps = <<>> THEN found
    ELSE lastGateway(Tail(ps), IF Head(ps).Name = sGateway THEN Head(ps) ELSE found)

onlyGatewayProjects(ps) == <<lastGateway(ps, ZeroProject)>>

\* cost_summary.go lines 133-151: the project lists the run may continue with
selectProjects(ps) ==
    IF subcommand = "bigquery" THEN {ps}
    ELSE IF cs.onlyGateways THEN {onlyGatewayProjects(ps)}
    ELSE sortSlice(ps)

\* GetProjects() returns a list; the run selects and orders its projects
GetProjectsOk ==
    /\ pc = "projects"
    /\ \E list \in ProjectLists :
         /\ listed' = list
         /\ projects' \in selectProjects(list)
    /\ pc' = "usages"
    /\ idx' = 1
    /\ UNCHANGED <<runVars, requests, fetchedUsages, fetchedBaseline, resultVars, exitCode>>

\* GetProjects() returns an error
GetProjectsFail ==
    /\ pc = "projects"
    /\ Exit1
    /\ UNCHANGED <<runVars, listed, projects, idx, requests, fetchedUsages, fetchedBaseline, resultVars>>

\* the window of the usage query in progress (cost_summary.go lines 153-161,
\* part_001 line 102)
queryWindow ==
    IF subcommand = "bigquery"
    THEN [start |-> Date(up.startTime.year, up.startTime.month, up.startTime.day),
          end |-> Date(up.endTime.year, up.endTime.month, up.endTime.day)]
    ELSE IF pc = "usages"
    THEN [start |-> cs.startDate, end |-> AddDate(cs.endDate, 1)]
    ELSE [start |-> cs.baselineStart, end |-> AddDate(cs.baselineEnd, 1)]

\* equinix.go lines 84-89: the query of the request's URI is
\* created[after]=<startDate>T00:00:00&created[before]=<endDate>T23:59:59.999
\* (milli: milliseconds since midnight)
usagesQuery(w) ==
    [after |-> [date |-> w.start, milli |-> 0],
     before |-> [date |-> w.end, milli |-> ((23 * 60 + 59) * 60 + 59) * 1000 + 999]]

\* equinix.go lines 83-126: one iteration of the loop of GetUsages that succeeds
UsageRequestOk ==
    /\ pc \in {"usages", "baseline"}
    /\ idx <= Len(projects)
    /\ \E records \in UsageResponses :
         LET project == projects[idx]
             set(m) == [k \in DOMAIN m \cup {projectKey(project)} |->
                           IF k = projectKey(project) THEN records ELSE m[k]]
         IN /\ requests' = Append(requests, [project |-> project, window |-> usagesQuery(queryWindow),
                                              call |-> pc, ok |-> TRUE,
                                              records |-> records])
            /\ IF pc = "usages"
               THEN fetchedUsages' = set(fetchedUsages) /\ UNCHANGED fetchedBaseline
               ELSE fetchedBaseline' = set(fetchedBaseline) /\ UNCHANGED fetchedUsages
    /\ idx' = idx + 1
    /\ UNCHANGED <<pc, runVars, listed, projects, resultVars, exitCode>>

\* a usage request that fails, after which GetUsages goes on with the next
\* project
UsageRequestFailSkip ==
    /\ pc \in {"usages", "baseline"}
    /\ idx <= Len(projects)
    /\ requests' = Append(requests, [project |-> projects[idx], window |-> usagesQuery(queryWindow),
                                     call |-> pc, ok |-> FALSE, records |-> <<>>])
    /\ idx' = idx + 1
    /\ UNCHANGED <<pc, runVars, listed, projects, fetchedUsages, fetchedBaseline, resultVars, exitCode>>

\* equinix.go lines 95-124: the request fails (transport error, status other
\* than 200, malformed JSON); GetUsages returns nil and the error, Run exits
UsageRequestFail ==
    /\ pc \in {"usages", "baseline"}
    /\ idx <= Len(projects)
    /\ requests' = Append(requests, [project |-> projects[idx], window |-> usagesQuery(queryWindow),
                                     call |-> pc, ok |-> FALSE, records |-> <<>>])
    /\ IF pc = "usages"
       THEN fetchedUsages' = EmptyMap /\ UNCHANGED fetchedBaseline
       ELSE fetchedBaseline' = EmptyMap /\ UNCHANGED fetchedUsages
    /\ Exit1
    /\ UNCHANGED <<runVars, listed, projects, idx, resultVars>>

\* equinix.go line 129: GetUsages returns the map
GetUsagesReturn ==
    /\ pc \in {"usages", "baseline"}
    /\ idx > Len(projects)
    /\ pc' = IF subcommand = "bigquery" THEN "client"
             ELSE IF pc = "usages" THEN "baseline" ELSE "summarize"
    /\ idx' = 1
    /\ UNCHANGED <<runVars, listed, projects, requests, fetchedUsages, fetchedBaseline,
                   resultVars, exitCode>>

\* cost_summary.go lines 167-179: split the gateways, summarize, print the header
Summarize ==
    /\ pc = "summarize"
    /\ LET us == IF cs.onlyGateways THEN splitGateways(fetchedUsages) ELSE fetchedUsages
           base == IF cs.onlyGateways THEN splitGateways(fetchedBaseline) ELSE fetchedBaseline
           r == summarize(cs.reportType, base, us)
       IN /\ usages' = us
          /\ baseline' = base
          /\ perProjectSummary' = r.perProjectSummary
          /\ totals' = r.totals
    /\ pc' = "print"
    /\ UNCHANGED <<runVars, listed, projects, idx, requests, fetchedUsages, fetchedBaseline,
                   printed, batches, exitCode>>

\* the project names of the rows printed so far
printedProjects == {printed[i].project : i \in {j \in 1..Len(printed) : printed[j].kind = "project"}}

\* cost_summary.go lines 181-190: one iteration of the loop over the map
\* perProjectSummary; the order of a range over a map is unspecified
PrintRow ==
    /\ pc = "print"
    /\ \E project \in DOMAIN perProjectSummary \ printedProjects :
         printed' = Append(printed,
                           [kind |-> "project", project |-> project,
                            baseTotal |-> perProjectSummary[project].BaseTotal,
                            total |-> perProjectSummary[project].Total])
    /\ UNCHANGED <<pc, runVars, listed, projects, idx, requests, fetchedUsages, fetchedBaseline,
                   usages, baseline, perProjectSummary, totals, batches, exitCode>>

\* cost_summary.go lines 192-198: the Total row, then Run returns
PrintTotal ==
    /\ pc = "print"
    /\ DOMAIN perProjectSummary \ printedProjects = {}
    /\ printed' = Append(printed, [kind |-> "total", project |-> sTotal,
                                   baseTotal |-> totals.BaseTotal, total |-> totals.Total])
    /\ pc' = "exit"
    /\ exitCode' = 0
    /\ UNCHANGED <<runVars, listed, projects, idx, requests, fetchedUsages, fetchedBaseline,
                   usages, baseline, perProjectSummary, totals, batches>>

\* part_001 lines 109-115: the BigQuery client is created
NewClientOk ==
    /\ pc = "client"
    /\ pc' = "insert"
    /\ UNCHANGED <<runVars, listed, projects, idx, requests, fetchedUsages, fetchedBaseline,
                   resultVars, exitCode>>

\* part_001 lines 110-113: creating the client fails
NewClientFail ==
    /\ pc = "client"
    /\ Exit1
    /\ UNCHANGED <<runVars, listed, projects, idx, requests, fetchedUsages, fetchedBaseline,
                   resultVars>>

\* the projects whose batch was handed to the sink
putProjects == {batches[i].project : i \in 1..Len(batches)}

\* the batch of one project: part_001 lines 118-152
batch(project, ok) ==
    [project |-> project, items |-> buildItems(up, project, fetchedUsages[project], <<>>),
     ok |-> ok]

\* part_001 lines 117-156: one iteration of the loop over projUsages whose
\* inserter.Put succeeds
PutOk ==
    /\ pc = "insert"
    /\ \E project \in DOMAIN fetchedUsages \ putProjects :
         batches' = Append(batches, batch(project, TRUE))
    /\ UNCHANGED <<pc, runVars, listed, projects, idx, requests, fetchedUsages, fetchedBaseline,
                   usages, baseline, perProjectSummary, totals, printed, exitCode>>

\* an inserter.Put that fails, after which Run goes on with the next project
PutFailContinue ==
    /\ pc = "insert"
    /\ \E project \in DOMAIN fetchedUsages \ putProjects :
         batches' = Append(batches, batch(project, FALSE))
    /\ UNCHANGED <<pc, runVars, listed, projects, idx, requests, fetchedUsages, fetchedBaseline,
                   usages, baseline, perProjectSummary, totals, printed, exitCode>>

\* part_001 lines 156-159: inserter.Put fails
PutFail ==
    /\ pc = "insert"
    /\ \E project \in DOMAIN fetchedUsages \ putProjects :
         batches' = Append(batches, batch(project, FALSE))
    /\ Exit1
    /\ UNCHANGED <<runVars, listed, projects, idx, requests, fetchedUsages, fetchedBaseline,
                   usages, baseline, perProjectSummary, totals, printed>>

\* part_001 line 161: every batch is in; Run returns
UploadDone ==
    /\ pc = "insert"
    /\ DOMAIN fetchedUsages \ putProjects = {}
    /\ pc' = "exit"
    /\ exitCode' = 0
    /\ UNCHANGED <<runVars, listed, projects, idx, requests, fetchedUsages, fetchedBaseline,
                   resultVars>>

Next ==
    \/ Main
    \/ GetProjectsOk
    \/ GetProjectsFail
    \/ UsageRequestOk
    \/ UsageRequestFail
    \/ GetUsagesReturn
    \/ Summarize
    \/ PrintRow
    \/ PrintTotal
    \/ NewClientOk
    \/ NewClientFail
    \/ PutOk
    \/ PutFail
    \/ UploadDone

Spec == Init /\ [][Next]_vars

(***************************************************************************)
(* summarize as a function of its arguments: the maps and the report type  *)
(* are drawn from bounded sets, the call stores its two results.           *)
(***************************************************************************)
ProjectKeys == {sAlpha, sBeta}
SumRecords == {recKubo, recResMedium}

InitSummarize ==
    /\ pc = "call"
    /\ subcommand = "cost_summary"
    /\ args \in OtherArgs /\ args.token = sToken /\ args.subcommand = "cost_summary"
    /\ cs \in {CostSummary(t, FALSE, 1, Date(2023, 1, 22), NoDate) : t \in ReportTypes}
    /\ up = NoCommand
    /\ listed = <<>>
    /\ projects = <<>>
    /\ idx = 1
    /\ requests = <<>>
    /\ fetchedUsages = EmptyMap
    /\ fetchedBaseline = EmptyMap
    /\ usages \in Maps(ProjectKeys, BoundedSeq(SumRecords, MaxLen))
    /\ baseline \in Maps(ProjectKeys, BoundedSeq(SumRecords, MaxLen))
    /\ perProjectSummary = EmptyMap
    /\ totals = SummaryZero
    /\ printed = <<>>
    /\ batches = <<>>
    /\ exitCode = -1
    /\ partial = <<>>
    /\ full = <<>>

\* cost_summary.go line 177: perProjectSummary, totals := summarize(...)
SummarizeCall ==
    /\ pc = "call"
    /\ LET r == summarize(cs.reportType, baseline, usages) IN
         /\ perProjectSummary' = r.perProjectSummary
         /\ totals' = r.totals
    /\ pc' = "returned"
    /\ UNCHANGED <<runVars, listed, projects, idx, requests, fetchedUsages, fetchedBaseline,
                   usages, baseline, printed, batches, exitCode>>

NextSummarize == SummarizeCall

SpecSummarize == InitSummarize /\ [][NextSummarize]_vars

(***************************************************************************)
(* splitGateways as a function of its argument.                            *)
(***************************************************************************)
SplitRecords == {recKubo, recLb, recResMedium, recResSmall, recBoth, recOther}

InitSplit ==
    /\ pc = "call"
    /\ subcommand = "cost_summary"
    /\ args \in OtherArgs /\ args.token = sToken /\ args.subcommand = "cost_summary"
    /\ cs = CostSummary(NonReservationsReport, TRUE, 1, Date(2023, 1, 22), NoDate)
    /\ up = NoCommand
    /\ listed = <<>>
    /\ projects = <<>>
    /\ idx = 1
    /\ requests = <<>>
    /\ \E g \in Maps({sGateway}, BoundedSeq(SplitRecords, MaxLen)),
          a \in Maps({sAlpha}, {<<recLb>>}) :
         fetchedUsages = [k \in DOMAIN g \cup DOMAIN a |-> IF k \in DOMAIN g THEN g[k] ELSE a[k]]
    /\ fetchedBaseline = EmptyMap
    /\ usages = EmptyMap
    /\ baseline = EmptyMap
    /\ perProjectSummary = EmptyMap
    /\ totals = SummaryZero
    /\ printed = <<>>
    /\ batches = <<>>
    /\ exitCode = -1
    /\ partial = <<>>
    /\ full = <<>>

\* cost_summary.go line 168: usages = splitGateways(usages)
SplitCall ==
    /\ pc = "call"
    /\ usages' = splitGateways(fetchedUsages)
    /\ pc' = "returned"
    /\ UNCHANGED <<runVars, listed, projects, idx, requests, fetchedUsages, fetchedBaseline,
                   baseline, perProjectSummary, totals, printed, batches, exitCode>>

NextSplit == SplitCall

SpecSplit == InitSplit /\ [][NextSplit]_vars

(***************************************************************************)
(* PartialToFullIso as a function of its argument: the string is drawn     *)
(* from bounded sets of dates, times of day, milliseconds and offsets.     *)
(***************************************************************************)
IsoDates == {sEnd0122, sStartJan1, sLeapDay, sEndBad}
IsoTimes == {sEmpty, sTimeMidnight, sTimeAfternoon}
IsoMillis == {sEmpty, sMilliZero, sMilli789}
IsoOffsets == {sEmpty, sSuffixMillis, sOffsetEast, sOffsetWest, sOffsetColon, sOffsetZ}

\* strings of length 10, 19, 23, 28 and of other lengths
Partials == {d \o t \o m \o o : d \in IsoDates, t \in IsoTimes, m \in IsoMillis, o \in IsoOffsets}

InitIso ==
    /\ pc = "call"
    /\ subcommand = "bigquery"
    /\ args \in OtherArgs /\ args.token = sToken /\ args.subcommand = "bigquery"
    /\ cs = NoCommand
    /\ up = UploadToBigquery(Time(2023, 1, 1, 0, 0), 86400, sBqProject, sBqDataset, sBqTable)
    /\ listed = <<>>
    /\ projects = <<>>
    /\ idx = 1
    /\ requests = <<>>
    /\ fetchedUsages = EmptyMap
    /\ fetchedBaseline = EmptyMap
    /\ usages = EmptyMap
    /\ baseline = EmptyMap
    /\ perProjectSummary = EmptyMap
    /\ totals = SummaryZero
    /\ printed = <<>>
    /\ batches = <<>>
    /\ exitCode = -1
    /\ partial \in Partials
    /\ full = <<>>

\* part_000 line 26: t := PartialToFullIso(ts)
PartialToFullIsoCall ==
    /\ pc = "call"
    /\ full' = PartialToFullIso(partial)
    /\ pc' = "returned"
    /\ UNCHANGED <<args, subcommand, cs, up, partial, listed, projects, idx, requests, fetchedUsages,
                   fetchedBaseline, resultVars, exitCode>>

NextIso == PartialToFullIsoCall

SpecIso == InitIso /\ [][NextIso]_vars

(***************************************************************************)
(* Properties.                                                             *)
(***************************************************************************)
HR(u) == u.Type = sHardwareReservation

\* the sum of one field over a list of records, from the last to the first
RECURSIVE Sum(_, _)
Sum(us, f) == IF us = <<>> THEN 0 ELSE Sum(SubSeq(us, 1, Len(us) - 1), f) + us[Len(us)][f]

\* the sum of f(k) over a finite set of keys
RECURSIVE SumOver(_, _)
SumOver(keys, f) ==
    IF keys = {} THEN 0
    ELSE LET k == CHOOSE x \in keys : TRUE IN f[k] + SumOver(keys \ {k}, f)

\* the records of a list the report type t includes
Included(t, us) == SelectSeq(us, LAMBDA u : includeUsage(t, u))

OtherReportType(t) == IF t = ReservationsReport THEN NonReservationsReport ELSE ReservationsReport

\* C1: after summarize, every key k of the report map has a summary whose
\* Price, Quantity and Total are the sums over the included records of
\* usages[k], and whose BasePrice, BaseQuantity and BaseTotal are the sums
\* over the included records of baseline[k].
C1_PerProjectSums ==
    pc = "returned" =>
        \A k \in DOMAIN usages :
            /\ k \in DOMAIN perProjectSummary
            /\ LET rep == Included(cs.reportType, usages[k])
                   base == Included(cs.reportType, Lookup(baseline, k))
               IN perProjectSummary[k] =
                      [Price |-> Sum(rep, "Price"), Quantity |-> Sum(rep, "Quantity"),
                       Total |-> Sum(rep, "Total"), BasePrice |-> Sum(base, "Price"),
                       BaseQuantity |-> Sum(base, "Quantity"), BaseTotal |-> Sum(base, "Total")]

C1_Witness ==
    /\ pc = "returned"
    /\ \E k \in DOMAIN usages \cap DOMAIN baseline :
         /\ Included(cs.reportType, usages[k]) # <<>>
         /\ Len(usages[k]) > Len(Included(cs.reportType, usages[k]))
         /\ Included(cs.reportType, baseline[k]) # <<>>
         /\ perProjectSummary[k].Total # perProjectSummary[k].BaseTotal

\* C2: the grand total equals, field by field, the sum of the per-project
\* summaries of the same call; with an empty report map it is all zeros.
C2_GrandTotal ==
    pc = "returned" =>
        /\ \A f \in DOMAIN SummaryZero :
               totals[f] = SumOver(DOMAIN perProjectSummary,
                                   [k \in DOMAIN perProjectSummary |-> perProjectSummary[k][f]])
        /\ (usages = EmptyMap => totals = SummaryZero)

C2_Witness ==
    /\ pc = "returned"
    /\ Cardinality(DOMAIN perProjectSummary) = 2
    /\ \A k \in DOMAIN perProjectSummary :
         perProjectSummary[k].Total > 0 /\ perProjectSummary[k].BaseTotal > 0
    /\ totals.BaseTotal # totals.Total

\* C3: every record is included under exactly one of the two report types,
\* so a project's Total under the one type plus its Total under the other
\* type is the sum of total over all its records; and includeUsage is
\* (reportType = reservations) = (type = "HardwareReservation").
C3_FilterPartition ==
    pc = "returned" =>
        \A k \in DOMAIN usages :
            /\ \A i \in 1..Len(usages[k]) :
                 /\ includeUsage(ReservationsReport, usages[k][i])
                        # includeUsage(NonReservationsReport, usages[k][i])
                 /\ \A t \in ReportTypes :
                        includeUsage(t, usages[k][i])
                            = ((t = ReservationsReport) = HR(usages[k][i]))
            /\ perProjectSummary[k].Total
                 + sumReport(OtherReportType(cs.reportType), usages[k], SummaryZero).Total
                 = Sum(usages[k], "Total")

C3_Witness ==
    /\ pc = "returned"
    /\ \E k \in DOMAIN usages :
         /\ \E i, j \in 1..Len(usages[k]) : HR(usages[k][i]) /\ ~HR(usages[k][j])
         /\ perProjectSummary[k].Total > 0
         /\ perProjectSummary[k].Total < Sum(usages[k], "Total")

\* C4: the keys of the per-project summary are exactly the keys of the
\* report map; a project only in the baseline map adds nothing to the grand
\* total; a project missing from the baseline map has zero baseline fields.
C4_KeysOfReportMap ==
    pc = "returned" =>
        /\ DOMAIN perProjectSummary = DOMAIN usages
        /\ \A k \in DOMAIN usages \ DOMAIN baseline :
             /\ perProjectSummary[k].BasePrice = 0
             /\ perProjectSummary[k].BaseQuantity = 0
             /\ perProjectSummary[k].BaseTotal = 0
        /\ \A f \in {"Price", "Quantity", "Total"} :
             totals["Base" \o f] =
                 SumOver(DOMAIN usages,
                         [k \in DOMAIN usages |->
                             Sum(Included(cs.reportType, Lookup(baseline, k)), f)])

C4_Witness ==
    /\ pc = "returned"
    /\ \E k \in DOMAIN baseline \ DOMAIN usages : Included(cs.reportType, baseline[k]) # <<>>
    /\ \E k \in DOMAIN usages \ DOMAIN baseline : perProjectSummary[k].Total > 0

\* the two rules of the gateway splitter
KuboRule(u) == HasPrefix(u.Name, sIpfsPrefix) \/ (HR(u) /\ Contains(u.Plan, sMedium))
LbRule(u) == HasPrefix(u.Name, sGatewayPrefix) \/ (HR(u) /\ Contains(u.Plan, sSmall))

\* C5 as stated: gateway-kubo holds exactly the records of the first rule
\* and gateway-lb exactly the records of the second rule, also those that
\* satisfy both rules.
C5_Original ==
    pc = "returned" =>
        LET gateways == Lookup(fetchedUsages, sGateway) IN
        /\ Lookup(usages, sGatewayKubo) = SelectSeq(gateways, KuboRule)
        /\ Lookup(usages, sGatewayLb) = SelectSeq(gateways, LbRule)

\* C5 (amended): gateway-kubo holds exactly the records of the first rule,
\* gateway-lb holds exactly the records of the second rule that do not
\* satisfy the first one, both in the order of the input list; the list
\* [ipfs-node-1, gateway-lb-1] splits into [first] and [second].
C5_SplitFirstRuleWins ==
    pc = "returned" =>
        LET gateways == Lookup(fetchedUsages, sGateway) IN
        /\ Lookup(usages, sGatewayKubo) = SelectSeq(gateways, KuboRule)
        /\ Lookup(usages, sGatewayLb) = SelectSeq(gateways, LAMBDA u : LbRule(u) /\ ~KuboRule(u))
        /\ (gateways = <<recKubo, recLb>> =>
                usages = [k \in {sGatewayKubo, sGatewayLb} |->
                             IF k = sGatewayKubo THEN <<recKubo>> ELSE <<recLb>>])

C5_Witness ==
    /\ pc = "returned"
    /\ \E i \in 1..Len(Lookup(fetchedUsages, sGateway)) :
         KuboRule(fetchedUsages[sGateway][i]) /\ LbRule(fetchedUsages[sGateway][i])
    /\ Lookup(usages, sGatewayLb) # <<>>
    /\ Lookup(usages, sGatewayKubo) # <<>>

\* summarize has returned in a cost_summary run
Summarized ==
    /\ subcommand = "cost_summary"
    /\ pc = "print" \/ (pc = "exit" /\ exitCode = 0)

\* C6: in gateway-only mode a gateway record that matches neither rule is
\* dropped: the summary has no key other than gateway-kubo and gateway-lb,
\* and the grand Total counts only the records that match a rule.
C6_UnmatchedDropped ==
    (Summarized /\ cs.onlyGateways) =>
        /\ DOMAIN perProjectSummary \subseteq {sGatewayKubo, sGatewayLb}
        /\ \A i \in 1..Len(printed) :
               printed[i].kind = "project" => printed[i].project \in {sGatewayKubo, sGatewayLb}
        /\ totals.Total =
               Sum(Included(cs.reportType,
                            SelectSeq(Lookup(fetchedUsages, sGateway),
                                      LAMBDA u : KuboRule(u) \/ LbRule(u))), "Total")

\* endTime - startTime of a bigquery run, in seconds
WindowSeconds == unix(up.endTime) - unix(up.startTime)

\* the number of days of the month that holds the window start as a UTC instant
UtcDaysInMonth == DaysIn(timeUTC(up.startTime).year, timeUTC(up.startTime).month)

\* a record the upload treats as a hardware reservation (its plan does not
\* force another type)
Reservation(u) == HR(u) /\ u.Plan # sOutboundBandwidth

\* C7: with a window of exactly 86400 seconds, the row uploaded for a
\* hardware reservation has price and total divided by the number of days
\* of the UTC month of the window start and the pro-rated name, while
\* quantity, metro, plan and type are unchanged.
C7_ProRatedByUtcMonth ==
    (subcommand = "bigquery" /\ WindowSeconds = 86400) =>
        \A b \in 1..Len(batches) :
            LET src == fetchedUsages[batches[b].project]
                items == batches[b].items
            IN \A i \in 1..Len(src) :
                   Reservation(src[i]) =>
                       /\ i <= Len(items)
                       /\ items[i].price = src[i].Price \div UtcDaysInMonth
                       /\ items[i].total = src[i].Total \div UtcDaysInMonth
                       /\ items[i].name = sProRated
                       /\ items[i].quantity = src[i].Quantity
                       /\ items[i].metro = src[i].Metro
                       /\ items[i].plan = src[i].Plan
                       /\ items[i].tpe = src[i].Type

\* C8: when the window is not exactly 86400 seconds, no batch handed to the
\* sink holds a row of type HardwareReservation, and the rows of a batch are,
\* in order and once each, the project's records that are not hardware
\* reservations, with price, quantity and total unchanged.
C8_ReservationsDroppedOffDay ==
    (subcommand = "bigquery" /\ WindowSeconds # 86400) =>
        \A b \in 1..Len(batches) :
            LET src == fetchedUsages[batches[b].project]
                items == batches[b].items
                kept == SelectSeq(src, LAMBDA u : ~Reservation(u))
            IN /\ \A i \in 1..Len(items) : items[i].tpe # sHardwareReservation
               /\ \A i \in 1..Len(src) : ~HR(src[i]) => \E j \in 1..Len(kept) : kept[j] = src[i]
               /\ Len(items) = Len(kept)
               /\ \A i \in 1..Len(items) :
                      /\ items[i].project = batches[b].project
                      /\ items[i].name = kept[i].Name
                      /\ items[i].metro = kept[i].Metro
                      /\ items[i].plan = kept[i].Plan
                      /\ items[i].price = kept[i].Price
                      /\ items[i].quantity = kept[i].Quantity
                      /\ items[i].total = kept[i].Total

C8_Witness ==
    /\ subcommand = "bigquery"
    /\ WindowSeconds # 86400
    /\ \E b \in 1..Len(batches) :
         LET src == fetchedUsages[batches[b].project] IN
         /\ \E i, j \in 1..Len(src) : Reservation(src[i]) /\ ~HR(src[j])
         /\ batches[b].items # <<>>
         /\ Len(batches[b].items) < Len(src)

\* the report window of a cost_summary run is a single day
OneDayWindow == cs.startDate = cs.endDate

\* the reservations of a list
Reservations(us) == SelectSeq(us, HR)

\* C9 as stated: in cost_summary with report type reservations, a hardware
\* reservation adds total / daysInMonth(windowStart) to its project's Total
\* when the window is one day, and nothing to any Total when it is longer.
C9_Original ==
    (Summarized /\ cs.reportType = ReservationsReport) =>
        /\ \A k \in DOMAIN usages :
               perProjectSummary[k].Total =
                   IF OneDayWindow
                   THEN Sum(Reservations(usages[k]), "Total")
                            \div DaysIn(cs.startDate.year, cs.startDate.month)
                   ELSE 0
        /\ (~OneDayWindow => totals.Total = 0)

\* C9 (amended): cost_summary does not pro-rate: with report type
\* reservations every hardware reservation adds its full total to its
\* project's Total and to the grand total, whatever the length of the window.
C9_ReservationsNotProRated ==
    (Summarized /\ cs.reportType = ReservationsReport) =>
        /\ \A k \in DOMAIN usages :
               perProjectSummary[k].Total = Sum(Reservations(usages[k]), "Total")
        /\ totals.Total =
               SumOver(DOMAIN usages,
                       [k \in DOMAIN usages |-> Sum(Reservations(usages[k]), "Total")])

C9_Witness ==
    /\ Summarized
    /\ cs.reportType = ReservationsReport
    /\ ~OneDayWindow
    /\ \E k \in DOMAIN usages :
         Reservations(usages[k]) # <<>> /\ perProjectSummary[k].Total >= MonthLcm
    /\ totals.Total >= MonthLcm

\* C10: in a cost_summary run that is not gateway-only the project rows
\* are printed in case-insensitive alphabetical order of the project name,
\* and the Total row comes after all project rows.
C10_RowsSorted ==
    (subcommand = "cost_summary" /\ ~cs.onlyGateways) =>
        /\ \A i, j \in 1..Len(printed) :
               (i < j /\ printed[i].kind = "project" /\ printed[j].kind = "project")
                   => ~StrLess(ToUpper(printed[j].project), ToUpper(printed[i].project))
        /\ \A i \in 1..Len(printed) :
               printed[i].kind = "total" =>
                   i = Len(printed) /\ printedProjects = DOMAIN perProjectSummary
(***************************************************************************)
(* The windows cost_summary queries.                                       *)
(***************************************************************************)
\* the -e date E and the -b date of the run (B, by default the day before
\* the first day of the report)
EndDay == dateOf(parseDate(args.endF))
FirstDay == AddDate(EndDay, 1 - args.daysF)
BaselineDay ==
    IF args.baselineF = sEmpty THEN AddDate(FirstDay, 0 - 1)
    ELSE dateOf(parseDate(args.baselineF))

\* the query that covers exactly the calendar days first .. last
DaysQuery(first, last) ==
    [after |-> [date |-> first, milli |-> 0],
     before |-> [date |-> last, milli |-> 86399999]]

\* the calendar days a query covers at least in part, as day numbers
CoveredDays(q) ==
    daysFromCivil(q.after.date.year, q.after.date.month, q.after.date.day) ..
        daysFromCivil(q.before.date.year, q.before.date.month, q.before.date.day)

\* C11: in a cost_summary run with end date E and N days, every usage
\* request of the report window queries exactly the days E-N+1 .. E
\* (00:00:00 of the first to 23:59:59.999 of the last), every request of the
\* baseline window exactly the days B-N+1 .. B, and with the default
\* baseline no day is covered by both a report and a baseline request.
C11_QueriedWindows ==
    subcommand = "cost_summary" =>
        /\ \A i \in 1..Len(requests) :
              requests[i].window =
                  IF requests[i].call = "usages"
                  THEN DaysQuery(FirstDay, EndDay)
                  ELSE DaysQuery(AddDate(BaselineDay, 1 - args.daysF), BaselineDay)
        /\ args.baselineF = sEmpty =>
              \A i, j \in 1..Len(requests) :
                  requests[i].call = "usages" /\ requests[j].call = "baseline" =>
                      CoveredDays(requests[i].window) \cap CoveredDays(requests[j].window) = {}

(***************************************************************************)
(* GetUsages: one request per project, all or nothing.                     *)
(***************************************************************************)
\* the requests of one call of GetUsages, in the order they were issued
RequestsOf(call) == SelectSeq(requests, LAMBDA r : r.call = call)

\* the result of one call of GetUsages
ResultOf(call) == IF call = "usages" THEN fetchedUsages ELSE fetchedBaseline

\* the last request of rs for the project key k
LastFor(rs, k) ==
    rs[CHOOSE i \in 1..Len(rs) :
          /\ projectKey(rs[i].project) = k
          /\ \A j \in (i + 1)..Len(rs) : projectKey(rs[j].project) # k]

\* C12: the requests of a call of GetUsages are issued for a prefix of the
\* project list, in list order and one per element; only the last one can
\* have failed, and then the run has ended with an error and without a
\* usage map; while every request has succeeded the map has exactly one
\* entry per distinct project requested, holding the records of its response.
C12_AllOrNothing ==
    \A call \in {"usages", "baseline"} :
        LET rs == RequestsOf(call) IN
        /\ Len(rs) <= Len(projects)
        /\ \A i \in 1..Len(rs) : rs[i].project = projects[i]
        /\ \A i \in 1..(Len(rs) - 1) : rs[i].ok
        /\ (rs # <<>> /\ ~rs[Len(rs)].ok) =>
              /\ pc = "exit"
              /\ exitCode = 1
              /\ ResultOf(call) = EmptyMap
              /\ requests[Len(requests)] = rs[Len(rs)]
        /\ (\A i \in 1..Len(rs) : rs[i].ok) =>
              /\ DOMAIN ResultOf(call) = {projectKey(rs[i].project) : i \in 1..Len(rs)}
              /\ \A k \in DOMAIN ResultOf(call) : ResultOf(call)[k] = LastFor(rs, k).records

\* a request failed after an earlier one of the same call had succeeded and
\* stored records
C12_Witness ==
    /\ Len(requests) >= 2
    /\ requests[1].ok
    /\ requests[1].records # <<>>
    /\ requests[1].call = requests[2].call
    /\ ~requests[2].ok
    /\ pc = "exit"

(***************************************************************************)
(* The order of the calls of a bigquery run.                               *)
(***************************************************************************)
\* C13: in a bigquery run no usage request is issued before the project
\* list is fetched and no batch is handed to the sink unless every project
\* of the list was requested and every request succeeded; the batches are
\* for distinct projects of the usage map, only the last one can have
\* failed, and then the run has ended with exit status 1; a run that ends
\* with status 0 has handed exactly one batch per project of the usage map,
\* also for a project without rows.
C13_FailFastOrder ==
    subcommand = "bigquery" =>
        /\ requests # <<>> => pc \notin {"main", "projects"}
        /\ batches # <<>> =>
              /\ Len(requests) = Len(projects)
              /\ \A i \in 1..Len(requests) : requests[i].ok
        /\ \A i \in 1..Len(batches) : batches[i].project \in DOMAIN fetchedUsages
        /\ \A i, j \in 1..Len(batches) : batches[i].project = batches[j].project => i = j
        /\ \A i \in 1..(Len(batches) - 1) : batches[i].ok
        /\ (batches # <<>> /\ ~batches[Len(batches)].ok) => (pc = "exit" /\ exitCode = 1)
        /\ (pc = "exit" /\ exitCode = 0) =>
              /\ Len(batches) = Cardinality(DOMAIN fetchedUsages)
              /\ putProjects = DOMAIN fetchedUsages
              /\ \A i \in 1..Len(batches) : batches[i].ok

\* the second insert failed after the first had succeeded, and one of the
\* two batches had no rows
C13_Witness ==
    /\ subcommand = "bigquery"
    /\ Len(batches) = 2
    /\ batches[1].ok
    /\ ~batches[2].ok
    /\ \E i \in 1..2 : batches[i].items = <<>>
    /\ pc = "exit"

(***************************************************************************)
(* The completion of a partial timestamp.                                  *)
(***************************************************************************)
\* the instant (seconds since the epoch, UTC, and milliseconds) of the fields written in
\* a partial of length 10, 19 or 23; a field that is not written is zero
FieldsInstant(p) ==
    LET date == parseDate(SubSeq(p, 1, 10))
        h == IF Len(p) >= 19 THEN atoi(p, 12, 2) ELSE 0
        mi == IF Len(p) >= 19 THEN atoi(p, 15, 2) ELSE 0
        sec == IF Len(p) >= 19 THEN atoi(p, 18, 2) ELSE 0
        ms == IF Len(p) >= 23 THEN atoi(p, 21, 3) ELSE 0
    IN [unix |-> ((daysFromCivil(date.year, date.month, date.day) * 24 + h) * 60 + mi) * 60
                     + sec,
        milli |-> ms]

\* PartialToFullIso has returned the completion of partial
Completed == pc = "returned" /\ Len(partial) \in {10, 19, 23}

\* C14 as claimed: the completion is chosen by the length alone and the
\* offset it appends is "+00:00"; a string of another length is returned
\* unchanged, a second application changes nothing, and the completed
\* string denotes the UTC instant of its fields.
C14_Original ==
    pc = "returned" =>
        /\ Len(partial) = 10 => full = partial \o sTimeMidnight \o sMilliZero \o sOffsetColon
        /\ Len(partial) = 19 => full = partial \o sMilliZero \o sOffsetColon
        /\ Len(partial) = 23 => full = partial \o sOffsetColon
        /\ Len(partial) \notin {10, 19, 23} => full = partial
        /\ PartialToFullIso(full) = full
        /\ (Completed /\ parseIso8601(full).ok) =>
              instantOf(parseIso8601(full)) = FieldsInstant(partial)

\* C14: the completion is chosen by the length alone: length 10 gets
\* "T00:00:00", ".000" and the offset appended, length 19 ".000" and the
\* offset, length 23 the offset, where the offset is written "-0000"; a
\* string of another length is returned unchanged; every completed string
\* has length 28, so a second application changes nothing; and a completed
\* string that parses denotes the UTC instant of the fields of the partial.
C14_CompletedByLength ==
    pc = "returned" =>
        /\ Len(partial) = 10 => full = partial \o sTimeMidnight \o sMilliZero \o sSuffixMillis
        /\ Len(partial) = 19 => full = partial \o sMilliZero \o sSuffixMillis
        /\ Len(partial) = 23 => full = partial \o sSuffixMillis
        /\ Len(partial) \notin {10, 19, 23} => full = partial
        /\ Completed => Len(full) = 28
        /\ PartialToFullIso(full) = full
        /\ (Completed /\ parseIso8601(full).ok) =>
              /\ parseIso8601(full).offset = 0
              /\ instantOf(parseIso8601(full)) = FieldsInstant(partial)

\* a timestamp without milliseconds and with a time of day other than
\* midnight was completed, and the completion parses
C14_Witness ==
    /\ pc = "returned"
    /\ Len(partial) = 19
    /\ parseIso8601(full).ok
    /\ parseIso8601(full).hour = 12
    /\ full # partial

(***************************************************************************)
(* Invalid configurations.                                                 *)
(***************************************************************************)
\* the configuration of the run is invalid: no token, no or an unknown
\* subcommand, a bad report type or date for cost_summary, a bad start time
\* or a missing project, dataset or table identifier for bigquery
InvalidConfiguration ==
    \/ args.token = sEmpty
    \/ args.subcommand \notin {"cost_summary", "bigquery"}
    \/ /\ args.subcommand = "cost_summary"
       /\ \/ args.typeF \notin {"", "reservations"}
          \/ ~parseDate(args.endF).ok
          \/ (args.baselineF # sEmpty /\ ~parseDate(args.baselineF).ok)
    \/ /\ args.subcommand = "bigquery"
       /\ \/ ~ParsePartialIsoTime(args.startF).ok
          \/ sEmpty \in {args.projectIdF, args.datasetIdF, args.tableIdF}

\* C15: a run with an invalid configuration makes no upstream and no sink
\* call: it never leaves main except to exit, and it exits with a non-zero
\* status.
C15_InvalidExitsBeforeCalls ==
    InvalidConfiguration =>
        /\ pc \in {"main", "exit"}
        /\ pc = "exit" => exitCode # 0
        /\ projects = <<>>
        /\ requests = <<>>
        /\ batches = <<>>

(***************************************************************************)
(* The usage requests of the gateway-only mode.                            *)
(***************************************************************************)
\* C16: in a gateway-only run every usage request is for a project that is
\* an element of the list GetProjects returned and is named "gateway", and
\* none is for a project with an empty id.
C16_GatewayOnlyRequests ==
    (subcommand = "cost_summary" /\ cs.onlyGateways) =>
        \A i \in 1..Len(requests) :
            /\ requests[i].project \in Range(listed)
            /\ requests[i].project.Name = sGateway
            /\ requests[i].project.Id # sEmpty

====
